---- MODULE Spec2Model ----
(***************************************************************************)
(* brainfork-server (src/main.rs): the admission-and-metering layer.       *)
(* Worker threads take one HTTP request each and run it to completion:     *)
(* request guards (AccessLevel, Database), then the route's handler.       *)
(* Shared state: the authorizations table, the r2d2 connection pool and    *)
(* the five ServerCounts atomics.                                          *)
(***************************************************************************)
EXTENDS Integers, Sequences, FiniteSets

\* ------------------------------------------------------------- bounds
NumWorkers == 2       \* worker threads serving requests concurrently
MaxRequests == 3      \* requests accepted in one behaviour
NumKeys == 3          \* size of the universe of api_key strings
MaxHeaders == 2       \* X-Authentication headers one request can carry
PoolSize == 1         \* connections in the r2d2 pool
MaxExecutions == 1    \* largest product.executions the engine reports
MaxTime == 1          \* largest product.time the engine reports
MaxLen == 1           \* largest serialized response length

Workers == 1..NumWorkers
ApiKeys == 1..NumKeys                 \* each number stands for one key string
Labels == {"test"}
RequestedLevels == {"developer", "basic", "administrator", "unauthenticated"}
Routes == {"request_interpretation", "api", "new_authorization", "limits"}

\* ------------------------------------------------------------- usize
\* A usize is kept as four 16-bit limbs, most significant first (64-bit target).
LimbBase == 65536
Usize(n) == <<0, 0, n \div LimbBase, n % LimbBase>>
UsizeMax == <<LimbBase - 1, LimbBase - 1, LimbBase - 1, LimbBase - 1>>

ADMIN_RUNTIME_LIMITS == <<UsizeMax, UsizeMax>>
DEVELOPER_RUNTIME_LIMITS == <<Usize(10000), Usize(128000)>>
BASIC_RUNTIME_LIMITS == <<Usize(5000), Usize(64000)>>
DEFAULT_RUNTIME_LIMITS == <<Usize(500), Usize(32000)>>
NoLimits == <<>>

\* ------------------------------------------------------------- AccessLevel
AccessLevels == {"Administrator", "Developer", "Basic", "Unauthenticated"}

\* enum discriminants
Discriminant(level) ==
    CASE level = "Administrator" -> 0
      [] level = "Developer" -> 1
      [] level = "Basic" -> 2
      [] level = "Unauthenticated" -> -1

\* `access_level as u8`
AsU8(level) == Discriminant(level) % 256

\* from_access_byte with the arms of Developer and Basic exchanged
from_access_byte_swapped(value) ==
    CASE value = 0 -> "Administrator"
      [] value = 1 -> "Basic"
      [] value = 2 -> "Developer"
      [] OTHER -> "None"

\* Option<AccessLevel>: "None" or the level
from_access_byte(value) ==
    CASE value = 0 -> "Administrator"
      [] value = 1 -> "Developer"
      [] value = 2 -> "Basic"
      [] OTHER -> "None"

\* get_runtime_limits with the limits of Developer and Basic exchanged
get_runtime_limits_exchanged(level) ==
    CASE level = "Administrator" -> ADMIN_RUNTIME_LIMITS
      [] level = "Developer" -> BASIC_RUNTIME_LIMITS
      [] level = "Basic" -> DEVELOPER_RUNTIME_LIMITS
      [] OTHER -> DEFAULT_RUNTIME_LIMITS

\* get_runtime_limits without the Developer arm
get_runtime_limits_no_developer(level) ==
    CASE level = "Administrator" -> ADMIN_RUNTIME_LIMITS
      [] level = "Basic" -> BASIC_RUNTIME_LIMITS
      [] OTHER -> DEFAULT_RUNTIME_LIMITS

get_runtime_limits(level) ==
    CASE level = "Administrator" -> ADMIN_RUNTIME_LIMITS
      [] level = "Developer" -> DEVELOPER_RUNTIME_LIMITS
      [] level = "Basic" -> BASIC_RUNTIME_LIMITS
      [] OTHER -> DEFAULT_RUNTIME_LIMITS

\* ------------------------------------------------------------- store
\* Rows of table authorizations (api_key PRIMARY KEY, access_level, label).
Row(k, b, l) == [api_key |-> k, access_level |-> b, label |-> l]

\* SQL_SELECT_KEY_ACCESS: the rows WHERE api_key = ?
SelectKeyAccess(table, api_key) == {row \in table : row.api_key = api_key}

\* SQL_INSERT_KEY: the PRIMARY KEY constraint rejects a second row for a key
InsertAllowed(table, api_key) == SelectKeyAccess(table, api_key) = {}

\* The table as the server finds it at start: it is a file outside the program.
\* Administrator rows are provisioned there (the server never writes one), and
\* nothing keeps a foreign writer to the three codes the server knows.
InitTables ==
    { {},
      {Row(3, 1, "test")},
      {Row(1, 0, "test")},
      {Row(1, 0, "test"), Row(2, 3, "test")} }

\* authorizations  the rows of the table
\* checked_out     connections of the pool that are checked out
\* server_counts   the five ServerCounts atomics
\* worker          per thread, the request it serves and where it stands in it
\* accepted        requests taken so far
\* issued          the {"key": ..} responses given: (api_key, level, label)
\* totals          what the handle calls so far amount to: execution requests
\*                 the guard admitted, engine runs, the sums of the products'
\*                 executions and time and of the responses' lengths, the calls
\*                 that have added both instructions and runtime_ns, and whether
\*                 a call ever started while another one was in progress
VARIABLES authorizations, checked_out, server_counts, worker, accepted, issued, totals

vars == <<authorizations, checked_out, server_counts, worker, accepted, issued, totals>>

\* ServerCounts::new
ServerCountsNew ==
    [requests_fufilled |-> 0, instructions |-> 0, runtime_ns |-> 0,
     bytes_returned |-> 0, status_hits |-> 0]

\* FetchAdd as a store of the amount
FetchAdd_store(counts, field, n) == [counts EXCEPT ![field] = n]

\* FetchAdd as fetch_max
FetchAdd_max(counts, field, n) == [counts EXCEPT ![field] = IF @ > n THEN @ ELSE n]

\* AtomicU64::fetch_add (the bounds keep every counter far below 2^64)
FetchAdd(counts, field, n) == [counts EXCEPT ![field] = @ + n]

\* A thread between two requests. Of a request: pc is the position in the
\* guards and the handler, route the handler, keys the X-Authentication
\* headers, access_level and label the body of an AuthorizationRequest,
\* access the value of the AccessLevel guard, response what is answered, key
\* the new key answered, limits the pair from get_runtime_limits, executions,
\* time and len the product and the length of its JSON, snapshot the values the
\* status page has read. Kept as the request's trace: runs (engine runs), gets
\* (calls of pool.get), holds (connections held), lookup (what the key lookup
\* met), uuid (the key insert_api_key generated), execute_failed (its
\* statement failed for another reason than the key).
IdleWorker ==
    [pc |-> "idle", route |-> "", keys |-> <<>>, access_level |-> "",
     label |-> "", access |-> "", response |-> "", key |-> 0,
     limits |-> NoLimits, executions |-> 0, time |-> 0, len |-> 0,
     runs |-> 0, gets |-> 0, holds |-> 0, lookup |-> "", uuid |-> 0, execute_failed |-> FALSE,
     snapshot |-> <<>>]

Init ==
    /\ authorizations \in InitTables
    /\ checked_out = 0
    /\ server_counts = ServerCountsNew
    /\ worker = [w \in Workers |-> IdleWorker]
    /\ accepted = 0
    /\ issued = {}
    /\ totals = [admitted |-> 0, runs |-> 0, executions |-> 0, time |-> 0,
                 len |-> 0, metered |-> 0, overlapped |-> FALSE]

\* sequences of at most MaxHeaders keys
HeaderLists == UNION {[1..n -> ApiKeys] : n \in 0..MaxHeaders}

\* A worker thread takes the next request off the socket.
Accept(w) ==
    /\ worker[w].pc = "idle"
    /\ accepted < MaxRequests
    /\ accepted' = accepted + 1
    /\ \E route \in Routes, keys \in HeaderLists, level \in RequestedLevels, label \in Labels :
         worker' = [worker EXCEPT ![w] =
            [IdleWorker EXCEPT
               !.pc = IF route = "api" THEN "status_requests" ELSE "access_guard",
               !.route = route,
               !.keys = IF route = "api" THEN <<>> ELSE keys,
               !.access_level = IF route = "new_authorization" THEN level ELSE "",
               !.label = IF route = "new_authorization" THEN label ELSE ""]]
    /\ UNCHANGED <<authorizations, checked_out, server_counts, issued, totals>>

\* ------------------------------------------------------------- AccessLevel guard
\* the route's next guard or handler once AccessLevel::from_request succeeded
HandlerEntry(route) ==
    CASE route = "request_interpretation" -> "interpretation"
      [] route = "new_authorization" -> "db_guard"
      [] route = "limits" -> "limits"

\* HeaderOutcome with the header count compared off by one
HeaderOutcome_off_by_one(keys) ==
    IF Len(keys) > 2 THEN "BadRequest"
    ELSE IF Len(keys) >= 1 THEN "lookup"
    ELSE "Unauthenticated"

\* from_request, lines 47-54 and 68-71: what the header count alone decides
\* ("BadRequest", "Unauthenticated", or "lookup" when the store is to be asked)
HeaderOutcome(keys) ==
    IF Len(keys) > 1 THEN "BadRequest"
    ELSE IF Len(keys) >= 1 THEN "lookup"      \* keys.get(0) is Some
    ELSE "Unauthenticated"

\* Connection::query_row with the closure of get_access_level: "Err" when the
\* statement fails, "NoRows" when no row matches, "Panic" when unwrap() meets
\* None, else the level the closure returns.
query_row(table, api_key, fails) ==
    IF fails THEN "Err"
    ELSE IF SelectKeyAccess(table, api_key) = {} THEN "NoRows"
    ELSE LET row == CHOOSE r \in SelectKeyAccess(table, api_key) : TRUE
             level == from_access_byte(row.access_level)
         IN  IF level = "None" THEN "Panic" ELSE level

\* get_access_level: query_row(..).ok()
get_access_level(table, api_key, fails) ==
    LET result == query_row(table, api_key, fails)
    IN  IF result \in {"Err", "NoRows"} THEN "None" ELSE result

\* from_request, lines 59-63: the guard's outcome for get_access_level's value
LookupOutcome(found) ==
    IF found = "None" THEN "Unauthorized" ELSE found

\* what the lookup met in the store, kept as the request's trace
LookupTrace(table, api_key, fails) ==
    IF fails THEN "query_error"
    ELSE IF SelectKeyAccess(table, api_key) = {} THEN "no_rows"
    ELSE "row"

\* the guard hands w's request to handle_interpretation
Admits(w) ==
    totals' = [totals EXCEPT !.admitted =
                  IF worker'[w].pc = "interpretation" THEN @ + 1 ELSE @]

Failure(w, status) ==
    [worker[w] EXCEPT !.pc = "done", !.response = status]

\* AccessLevel::from_request up to pool.get(): its effect on the request and the pool
from_request_guard(w) ==
    /\ worker[w].pc = "access_guard"
    /\ LET outcome == HeaderOutcome(worker[w].keys) IN
       \/ /\ outcome = "BadRequest"
          /\ worker' = [worker EXCEPT ![w] = Failure(w, "BadRequest")]
          /\ UNCHANGED checked_out
       \/ /\ outcome = "Unauthenticated"
          /\ worker' = [worker EXCEPT ![w] =
                [worker[w] EXCEPT !.pc = HandlerEntry(worker[w].route),
                                   !.access = "Unauthenticated"]]
          /\ UNCHANGED checked_out
       \/ /\ outcome = "lookup"      \* pool.get() hands out a connection
          /\ checked_out < PoolSize
          /\ checked_out' = checked_out + 1
          /\ worker' = [worker EXCEPT ![w] =
                [@ EXCEPT !.pc = "get_access_level", !.gets = @ + 1, !.holds = @ + 1]]
       \/ /\ outcome = "lookup"      \* pool.get() times out: no healthy connection
          /\ worker' = [worker EXCEPT ![w] =
                [Failure(w, "ServiceUnavailable") EXCEPT
                    !.gets = @ + 1, !.lookup = "pool_error"]]
          /\ UNCHANGED checked_out

\* from_request taking its connection before it looks at the headers
from_request_eager(w) ==
    /\ worker[w].pc = "access_guard"
    /\ LET outcome == HeaderOutcome(worker[w].keys)
           got == [worker[w] EXCEPT !.gets = @ + 1]
       IN
       \/ /\ worker' = [worker EXCEPT ![w] =
                [got EXCEPT !.pc = "done", !.response = "ServiceUnavailable",
                            !.lookup = "pool_error"]]
          /\ UNCHANGED checked_out
       \/ /\ checked_out < PoolSize
          /\ outcome = "BadRequest"
          /\ worker' = [worker EXCEPT ![w] =
                [got EXCEPT !.pc = "done", !.response = "BadRequest"]]
          /\ UNCHANGED checked_out
       \/ /\ checked_out < PoolSize
          /\ outcome = "Unauthenticated"
          /\ worker' = [worker EXCEPT ![w] =
                [got EXCEPT !.pc = HandlerEntry(got.route), !.access = "Unauthenticated"]]
          /\ UNCHANGED checked_out
       \/ /\ checked_out < PoolSize
          /\ outcome = "lookup"
          /\ checked_out' = checked_out + 1
          /\ worker' = [worker EXCEPT ![w] =
                [got EXCEPT !.pc = "get_access_level", !.holds = @ + 1]]
    /\ Admits(w)
    /\ UNCHANGED <<authorizations, server_counts, accepted, issued>>

\* from_request counting the request as served when it arrives
from_request_counted(w) ==
    /\ from_request_guard(w)
    /\ server_counts' = FetchAdd(server_counts, "requests_fufilled", 1)
    /\ Admits(w)
    /\ UNCHANGED <<authorizations, accepted, issued>>

from_request(w) ==
    /\ from_request_guard(w)
    /\ Admits(w)
    /\ UNCHANGED <<authorizations, server_counts, accepted, issued>>

\* from_request_lookup not giving the connection back when the key is not found
from_request_lookup_leak(w) ==
    /\ worker[w].pc = "get_access_level"
    /\ \E fails \in BOOLEAN :
         LET api_key == worker[w].keys[1]
             found == get_access_level(authorizations, api_key, fails)
             outcome == LookupOutcome(found)
             base == [worker[w] EXCEPT !.holds = @ - 1,
                        !.lookup = LookupTrace(authorizations, api_key, fails)]
         IN  /\ worker' = [worker EXCEPT ![w] =
                   IF found = "Panic" THEN [base EXCEPT !.pc = "panicked"]
                   ELSE IF outcome = "Unauthorized"
                        THEN [base EXCEPT !.pc = "done", !.response = "Unauthorized"]
                   ELSE [base EXCEPT !.pc = HandlerEntry(base.route), !.access = outcome]]
             /\ checked_out' = IF outcome = "Unauthorized" THEN checked_out
                                ELSE checked_out - 1
    /\ Admits(w)
    /\ UNCHANGED <<authorizations, server_counts, accepted, issued>>

\* from_request_lookup keeping the connection with the AccessLevel it returns
from_request_lookup_keep(w) ==
    /\ worker[w].pc = "get_access_level"
    /\ \E fails \in BOOLEAN :
         LET api_key == worker[w].keys[1]
             found == get_access_level(authorizations, api_key, fails)
             outcome == LookupOutcome(found)
             kept == found \notin {"Panic", "None"}
             base == [worker[w] EXCEPT !.holds = IF kept THEN @ ELSE @ - 1,
                        !.lookup = LookupTrace(authorizations, api_key, fails)]
         IN  /\ worker' = [worker EXCEPT ![w] =
                   IF found = "Panic" THEN [base EXCEPT !.pc = "panicked"]
                   ELSE IF outcome = "Unauthorized"
                        THEN [base EXCEPT !.pc = "done", !.response = "Unauthorized"]
                   ELSE [base EXCEPT !.pc = HandlerEntry(base.route), !.access = outcome]]
             /\ checked_out' = IF kept THEN checked_out ELSE checked_out - 1
    /\ Admits(w)
    /\ UNCHANGED <<authorizations, server_counts, accepted, issued>>

\* AccessLevel::from_request from get_access_level to its return, where conn
\* is dropped (also when the closure's unwrap() unwinds the thread)
from_request_lookup(w) ==
    /\ worker[w].pc = "get_access_level"
    /\ \E fails \in BOOLEAN :
         LET api_key == worker[w].keys[1]
             found == get_access_level(authorizations, api_key, fails)
             outcome == LookupOutcome(found)
             base == [worker[w] EXCEPT !.holds = @ - 1,
                        !.lookup = LookupTrace(authorizations, api_key, fails)]
         IN  worker' = [worker EXCEPT ![w] =
                IF found = "Panic" THEN [base EXCEPT !.pc = "panicked"]
                ELSE IF outcome = "Unauthorized"
                     THEN [base EXCEPT !.pc = "done", !.response = "Unauthorized"]
                ELSE [base EXCEPT !.pc = HandlerEntry(base.route), !.access = outcome]]
    /\ checked_out' = checked_out - 1
    /\ Admits(w)
    /\ UNCHANGED <<authorizations, server_counts, accepted, issued>>

\* ------------------------------------------------------------- Database guard
Database_from_request(w) ==
    /\ worker[w].pc = "db_guard"
    /\ \/ /\ checked_out < PoolSize
          /\ checked_out' = checked_out + 1
          /\ worker' = [worker EXCEPT ![w] =
                [@ EXCEPT !.pc = "new_authorization", !.gets = @ + 1, !.holds = @ + 1]]
       \/ /\ worker' = [worker EXCEPT ![w] =
                [Failure(w, "ServiceUnavailable") EXCEPT !.gets = @ + 1]]
          /\ UNCHANGED checked_out
    /\ UNCHANGED <<authorizations, server_counts, accepted, issued, totals>>

\* handle_new_authorization letting every authenticated caller issue
AuthorizationOutcome_any_authenticated(access, requested) ==
    IF access = "Unauthenticated" THEN "not_authorized"
    ELSE IF requested = "developer" THEN "Developer"
    ELSE IF requested = "basic" THEN "Basic"
    ELSE "unknown_access_level"

\* ------------------------------------------------------------- new_authorization
\* handle_new_authorization, lines 200-217: "not_authorized",
\* "unknown_access_level", or the AccessLevel to insert
AuthorizationOutcome(access, requested) ==
    IF access # "Administrator" THEN "not_authorized"
    ELSE IF requested = "developer" THEN "Developer"
    ELSE IF requested = "basic" THEN "Basic"
    ELSE "unknown_access_level"

\* insert_api_key: Some(key) as the key, None as 0
insert_api_key(table, key, fails) ==
    IF ~fails /\ InsertAllowed(table, key) THEN key ELSE 0

\* InsertKey as INSERT OR REPLACE: a colliding row is overwritten
InsertKey_replace(table, key, access_level, label, fails) ==
    IF fails THEN table
    ELSE (table \ SelectKeyAccess(table, key)) \cup {Row(key, AsU8(access_level), label)}

\* the table after SQL_INSERT_KEY
InsertKey(table, key, access_level, label, fails) ==
    IF ~fails /\ InsertAllowed(table, key)
    THEN table \cup {Row(key, AsU8(access_level), label)}
    ELSE table

\* the handler body; Database (the connection) is dropped at its return
handle_new_authorization(w) ==
    /\ worker[w].pc = "new_authorization"
    /\ LET outcome == AuthorizationOutcome(worker[w].access, worker[w].access_level)
           base == [worker[w] EXCEPT !.pc = "done", !.holds = @ - 1]
       IN
       \/ /\ outcome \in {"not_authorized", "unknown_access_level"}
          /\ worker' = [worker EXCEPT ![w] = [base EXCEPT !.response = outcome]]
          /\ UNCHANGED <<authorizations, issued>>
       \/ /\ outcome \in {"Developer", "Basic"}
          /\ \E key \in ApiKeys, fails \in BOOLEAN :    \* Uuid::new_v4, conn.execute
               LET new_key == insert_api_key(authorizations, key, fails) IN
               /\ authorizations' =
                     InsertKey(authorizations, key, outcome, worker[w].label, fails)
               /\ worker' = [worker EXCEPT ![w] =
                     [base EXCEPT !.uuid = key, !.execute_failed = fails,
                                  !.key = new_key,
                                  !.response = IF new_key # 0 THEN "key" ELSE "insert_failed"]]
               /\ issued' = IF new_key # 0
                            THEN issued \cup {[api_key |-> new_key, level |-> outcome,
                                               label |-> worker[w].label]}
                            ELSE issued
    /\ checked_out' = checked_out - 1
    /\ UNCHANGED <<server_counts, accepted, totals>>

\* ------------------------------------------------------------- limits
handle_limits(w) ==
    /\ worker[w].pc = "limits"
    /\ worker' = [worker EXCEPT ![w] =
          [@ EXCEPT !.pc = "done", !.response = "limits",
                    !.limits = get_runtime_limits(worker[w].access)]]
    /\ UNCHANGED <<authorizations, checked_out, server_counts, accepted, issued, totals>>

\* ------------------------------------------------------------- interpretation
\* the positions of handle_interpretation after the engine was called
InHandle == {"add_instructions", "add_runtime_ns", "product_to_response",
             "add_requests_fufilled", "add_bytes_returned"}

\* lines 150-154: the engine runs under the tier's limits and returns a product
handle_interpretation_engine(w) ==
    /\ worker[w].pc = "interpretation"
    /\ \E executions \in 0..MaxExecutions, time \in 1..MaxTime :
         /\ worker' = [worker EXCEPT ![w] =
               [@ EXCEPT !.pc = "add_instructions",
                         !.limits = get_runtime_limits(worker[w].access),
                         !.runs = @ + 1,
                         !.executions = executions, !.time = time]]
         /\ totals' = [totals EXCEPT
               !.runs = @ + 1, !.executions = @ + executions, !.time = @ + time,
               !.overlapped = @ \/ \E v \in Workers \ {w} : worker[v].pc \in InHandle]
    /\ UNCHANGED <<authorizations, checked_out, accepted, issued>>

\* handle_interpretation_run counting the request as served before the ledger
\* has its instructions and time
handle_interpretation_run_counting(w) ==
    /\ handle_interpretation_engine(w)
    /\ server_counts' = FetchAdd(server_counts, "requests_fufilled", 1)

handle_interpretation_run(w) ==
    /\ handle_interpretation_engine(w)
    /\ UNCHANGED server_counts

\* line 156 as a load followed by a store: the value loaded may be stale
handle_interpretation_instructions_racy(w) ==
    /\ worker[w].pc = "add_instructions"
    /\ \E stale \in 0..server_counts.instructions :
         server_counts' =
            [server_counts EXCEPT !.instructions = stale + worker[w].executions]
    /\ worker' = [worker EXCEPT ![w].pc = "add_runtime_ns"]
    /\ UNCHANGED <<authorizations, checked_out, accepted, issued, totals>>

\* line 156
handle_interpretation_instructions(w) ==
    /\ worker[w].pc = "add_instructions"
    /\ server_counts' = FetchAdd(server_counts, "instructions", worker[w].executions)
    /\ worker' = [worker EXCEPT ![w].pc = "add_runtime_ns"]
    /\ UNCHANGED <<authorizations, checked_out, accepted, issued, totals>>

\* line 157
handle_interpretation_runtime(w) ==
    /\ worker[w].pc = "add_runtime_ns"
    /\ server_counts' = FetchAdd(server_counts, "runtime_ns", worker[w].time)
    /\ worker' = [worker EXCEPT ![w].pc = "product_to_response"]
    /\ totals' = [totals EXCEPT !.metered = @ + 1]
    /\ UNCHANGED <<authorizations, checked_out, accepted, issued>>

\* line 160: the serialized JSON has some positive length
handle_interpretation_serialize(w) ==
    /\ worker[w].pc = "product_to_response"
    /\ \E len \in 1..MaxLen :
         /\ worker' = [worker EXCEPT ![w] =
               [@ EXCEPT !.pc = "add_requests_fufilled", !.len = len]]
         /\ totals' = [totals EXCEPT !.len = @ + len]
    /\ UNCHANGED <<authorizations, checked_out, server_counts, accepted, issued>>

\* line 162 left out
handle_interpretation_requests_skip(w) ==
    /\ worker[w].pc = "add_requests_fufilled"
    /\ worker' = [worker EXCEPT ![w].pc = "add_bytes_returned"]
    /\ UNCHANGED <<authorizations, checked_out, server_counts, accepted, issued, totals>>

\* line 162 adding two
handle_interpretation_requests_twice(w) ==
    /\ worker[w].pc = "add_requests_fufilled"
    /\ server_counts' = FetchAdd(server_counts, "requests_fufilled", 2)
    /\ worker' = [worker EXCEPT ![w].pc = "add_bytes_returned"]
    /\ UNCHANGED <<authorizations, checked_out, accepted, issued, totals>>

\* line 162
handle_interpretation_requests(w) ==
    /\ worker[w].pc = "add_requests_fufilled"
    /\ server_counts' = FetchAdd(server_counts, "requests_fufilled", 1)
    /\ worker' = [worker EXCEPT ![w].pc = "add_bytes_returned"]
    /\ UNCHANGED <<authorizations, checked_out, accepted, issued, totals>>

\* lines 163-166
handle_interpretation_bytes(w) ==
    /\ worker[w].pc = "add_bytes_returned"
    /\ server_counts' = FetchAdd(server_counts, "bytes_returned", worker[w].len)
    /\ worker' = [worker EXCEPT ![w] = [@ EXCEPT !.pc = "done", !.response = "product"]]
    /\ UNCHANGED <<authorizations, checked_out, accepted, issued, totals>>

\* ------------------------------------------------------------- status
\* format! evaluates its arguments in order: four loads, then the fetch_add
StatusLoad(w, at, field, then) ==
    /\ worker[w].pc = at
    /\ worker' = [worker EXCEPT ![w] =
          [@ EXCEPT !.pc = then, !.snapshot = Append(@, server_counts[field])]]
    /\ UNCHANGED <<authorizations, checked_out, server_counts, accepted, issued, totals>>

handle_api_status_requests(w) ==
    StatusLoad(w, "status_requests", "requests_fufilled", "status_instructions")

handle_api_status_instructions(w) ==
    StatusLoad(w, "status_instructions", "instructions", "status_runtime_ns")

handle_api_status_runtime(w) ==
    StatusLoad(w, "status_runtime_ns", "runtime_ns", "status_bytes_returned")

handle_api_status_bytes(w) ==
    StatusLoad(w, "status_bytes_returned", "bytes_returned", "status_hits")

handle_api_status_hits(w) ==
    /\ worker[w].pc = "status_hits"
    /\ server_counts' = FetchAdd(server_counts, "status_hits", 1)
    /\ worker' = [worker EXCEPT ![w] =
          [@ EXCEPT !.pc = "done", !.response = "status",
                    !.snapshot = Append(@, server_counts.status_hits + 1)]]
    /\ UNCHANGED <<authorizations, checked_out, accepted, issued, totals>>

\* The response is written and the thread goes back for the next request.
Complete(w) ==
    /\ worker[w].pc = "done"
    /\ worker' = [worker EXCEPT ![w] = IdleWorker]
    /\ UNCHANGED <<authorizations, checked_out, server_counts, accepted, issued, totals>>

\* one step of the thread w
Step(w) ==
    \/ Accept(w)
    \/ from_request(w)
    \/ from_request_lookup(w)
    \/ Database_from_request(w)
    \/ handle_new_authorization(w)
    \/ handle_limits(w)
    \/ handle_interpretation_run(w)
    \/ handle_interpretation_instructions(w)
    \/ handle_interpretation_runtime(w)
    \/ handle_interpretation_serialize(w)
    \/ handle_interpretation_requests(w)
    \/ handle_interpretation_bytes(w)
    \/ handle_api_status_requests(w)
    \/ handle_api_status_instructions(w)
    \/ handle_api_status_runtime(w)
    \/ handle_api_status_bytes(w)
    \/ handle_api_status_hits(w)
    \/ Complete(w)

Next == \E w \in Workers : Step(w)

Spec == Init /\ [][Next]_vars

\* Requests served one after another: a thread steps only while no other
\* thread is in a request.
NoOverlap(w) == \A v \in Workers \ {w} : worker[v].pc \in {"idle", "panicked"}

NextSequential == \E w \in Workers : NoOverlap(w) /\ Step(w)

SpecSequential == Init /\ [][NextSequential]_vars

\* ------------------------------------------------------------- the spec's names
MalformedCredentialPresentation == "BadRequest"
UnrecognizedCredential == "Unauthorized"
StoreUnavailable == "ServiceUnavailable"
NotAuthorized == "not_authorized"
InvalidRequestedTier == "unknown_access_level"
IssuanceFailed == "insert_failed"

GuardedRoutes == {"request_interpretation", "new_authorization", "limits"}

\* the AccessLevel guard of w's request has returned (a value or a rejection)
GuardReturned(w) ==
    /\ worker[w].route \in GuardedRoutes
    /\ worker[w].pc \notin {"access_guard", "get_access_level", "panicked"}

\* the tier codes of the issuable tiers, as the claims state them
IssuedCode(level) == IF level = "Developer" THEN 1 ELSE 2

\* ------------------------------------------------------------- C1
\* C1: every credential a successful issue returned keeps its one record
\* (credential, tier, label) in the store unchanged, and every later lookup of
\* exactly that credential which the store serves resolves to exactly that tier.
C1_IssuedCredentialResolves ==
    [][ /\ \A rec \in issued' :
             /\ rec.level \in {"Developer", "Basic"}
             /\ SelectKeyAccess(authorizations', rec.api_key)
                   = {Row(rec.api_key, IssuedCode(rec.level), rec.label)}
        /\ \A rec \in issued : \A w \in Workers :
             ( /\ worker[w].pc = "get_access_level"
               /\ worker[w].keys = <<rec.api_key>>
               /\ worker'[w].lookup \in {"row", "no_rows"} )
             => ( /\ worker'[w].pc = HandlerEntry(worker[w].route)
                  /\ worker'[w].access = rec.level )
      ]_vars

\* an issued Developer credential has been presented and resolved, after a
\* request that took place in between
C1_Witness ==
    \E w \in Workers : \E rec \in issued :
        /\ rec.level = "Developer"
        /\ worker[w].keys = <<rec.api_key>>
        /\ worker[w].lookup = "row"
        /\ worker[w].access = "Developer"
        /\ accepted = MaxRequests

\* ------------------------------------------------------------- C2
\* C2: an issuance request whose caller tier is not Administrator always ends
\* with NotAuthorized and writes nothing, whatever the state of the pool.
C2_NonAdministratorNotAuthorized ==
    \A w \in Workers :
        ( /\ worker[w].route = "new_authorization"
          /\ worker[w].pc = "done"
          /\ worker[w].access \in {"Developer", "Basic", "Unauthenticated"} )
        => ( /\ worker[w].response = NotAuthorized
             /\ worker[w].key = 0 )

\* ------------------------------------------------------------- C3
\* C3: with exactly one credential, a lookup the store could not serve (no
\* connection from the pool, or a failed query) ends with StoreUnavailable, and
\* UnrecognizedCredential is returned only when the store was read and holds
\* no record of the credential.
C3_UnservedLookupIsStoreUnavailable ==
    \A w \in Workers :
        /\ ( /\ Len(worker[w].keys) = 1
             /\ worker[w].lookup \in {"pool_error", "query_error"} )
           => worker[w].response = StoreUnavailable
        /\ worker[w].response = UnrecognizedCredential
           => worker[w].lookup = "no_rows"

\* ------------------------------------------------------------- C4
\* the record of api_key carries a tier code the server does not know
UnknownStoredTier(api_key) ==
    \E row \in SelectKeyAccess(authorizations, api_key) : row.access_level \notin {0, 1, 2}

\* C4: resolving a credential whose stored tier code is unknown ends with a
\* returned rejection (StoreUnavailable or UnrecognizedCredential): never a
\* tier, never a fault of the serving thread.
C4_UnknownTierIsRejected ==
    \A w \in Workers :
        ( /\ Len(worker[w].keys) = 1
          /\ worker[w].lookup = "row"
          /\ UnknownStoredTier(worker[w].keys[1]) )
        => ( /\ worker[w].pc = "done"
             /\ worker[w].response \in {StoreUnavailable, UnrecognizedCredential}
             /\ worker[w].access = "" )

\* ------------------------------------------------------------- C5
\* C5: a request without credentials resolves to Unauthenticated, and its
\* resolution takes no connection from the pool and issues no lookup.
C5_NoCredentialNoStoreAccess ==
    \A w \in Workers :
        ( /\ worker[w].route \in GuardedRoutes
          /\ Len(worker[w].keys) = 0
          /\ worker[w].pc # "access_guard" )
        => ( /\ worker[w].access = "Unauthenticated"
             /\ worker[w].lookup = ""
             /\ worker[w].response \notin
                   {MalformedCredentialPresentation, UnrecognizedCredential}
             /\ worker[w].pc = HandlerEntry(worker[w].route)
                   => (worker[w].gets = 0 /\ worker[w].holds = 0)
             /\ worker[w].route # "new_authorization" => worker[w].gets = 0 )

\* a request without credentials was resolved while the pool had no
\* connection left
C5_Witness ==
    \E w \in Workers :
        /\ worker[w].route = "request_interpretation"
        /\ Len(worker[w].keys) = 0
        /\ worker[w].pc = "interpretation"
        /\ worker[w].access = "Unauthenticated"
        /\ checked_out = PoolSize

\* ------------------------------------------------------------- C6
\* C6: a request with two or more credentials is rejected with
\* MalformedCredentialPresentation, whatever the credentials and the pool are,
\* and the store is not consulted.
C6_ManyCredentialsMalformed ==
    \A w \in Workers :
        ( /\ worker[w].route \in GuardedRoutes
          /\ Len(worker[w].keys) >= 2
          /\ worker[w].pc # "access_guard" )
        => ( /\ worker[w].pc = "done"
             /\ worker[w].response = MalformedCredentialPresentation
             /\ worker[w].access = ""
             /\ worker[w].gets = 0
             /\ worker[w].lookup = "" )

\* api_key has a record of the Administrator tier
IsAdministratorKey(api_key) ==
    \E row \in SelectKeyAccess(authorizations, api_key) : row.access_level = 0

\* an Administrator credential and an unknown one, presented together, were
\* rejected while the pool had no connection left
C6_Witness ==
    \E w \in Workers :
        /\ Len(worker[w].keys) = 2
        /\ IsAdministratorKey(worker[w].keys[1])
        /\ SelectKeyAccess(authorizations, worker[w].keys[2]) = {}
        /\ worker[w].response = MalformedCredentialPresentation
        /\ checked_out = PoolSize

\* ------------------------------------------------------------- C7
Rejections ==
    {MalformedCredentialPresentation, UnrecognizedCredential, StoreUnavailable}

\* C7: no step of a request whose resolution is rejected changes any of the
\* five counters (neither a step of the resolution nor the one that ends the
\* request), and an unknown credential is rejected with UnrecognizedCredential.
C7_RejectedLeavesLedger ==
    [][\A w \in Workers :
          /\ ( /\ worker'[w] # worker[w]
               /\ \/ worker[w].pc \in {"access_guard", "get_access_level"}
                  \/ worker'[w].response \in Rejections
                  \/ worker[w].response \in Rejections )
             => server_counts' = server_counts
          /\ ( /\ worker[w].pc = "get_access_level"
               /\ worker'[w].lookup = "no_rows" )
             => ( /\ worker'[w].pc = "done"
                  /\ worker'[w].response = UnrecognizedCredential )
      ]_vars

\* an execution request with an unknown credential was rejected after another
\* request had been counted
C7_Witness ==
    \E w \in Workers :
        /\ worker[w].route = "request_interpretation"
        /\ worker[w].lookup = "no_rows"
        /\ worker[w].response = UnrecognizedCredential
        /\ server_counts.requests_fufilled = 1

\* ------------------------------------------------------------- C8
\* the tier budget table, as the claim states it
Ceilings(level) ==
    CASE level = "Administrator" -> <<UsizeMax, UsizeMax>>
      [] level = "Developer" -> <<Usize(10000), Usize(128000)>>
      [] level = "Basic" -> <<Usize(5000), Usize(64000)>>
      [] level = "Unauthenticated" -> <<Usize(500), Usize(32000)>>

\* C8: the engine runs every execution request under the ceilings of the tier
\* the request resolved to, a request with an issued credential under the
\* ceilings of the tier it was issued for, and the limits query reports the
\* same pair for the tier.
C8_EngineRunsUnderTierCeilings ==
    \A w \in Workers :
        /\ (worker[w].runs > 0 \/ worker[w].response = "limits")
           => ( /\ worker[w].access \in AccessLevels
                /\ worker[w].limits = Ceilings(worker[w].access) )
        /\ \A rec \in issued :
              ( /\ worker[w].runs > 0
                /\ worker[w].keys = <<rec.api_key>> )
              => worker[w].limits = Ceilings(rec.level)

\* the engine has run a request that presented an issued Developer credential
C8_Witness ==
    \E w \in Workers : \E rec \in issued :
        /\ rec.level = "Developer"
        /\ worker[w].keys = <<rec.api_key>>
        /\ worker[w].runs = 1
        /\ worker[w].limits = <<Usize(10000), Usize(128000)>>
        /\ worker[w].limits # DEFAULT_RUNTIME_LIMITS

\* ------------------------------------------------------------- C9
\* C9: an issuance request of an Administrator caller for a tier that is not
\* Developer or Basic ends with InvalidRequestedTier, writes nothing and
\* discloses no credential.
C9_InvalidRequestedTierRejected ==
    \A w \in Workers :
        ( /\ worker[w].route = "new_authorization"
          /\ worker[w].pc = "done"
          /\ worker[w].access = "Administrator"
          /\ worker[w].access_level \notin {"developer", "basic"} )
        => ( /\ worker[w].response = InvalidRequestedTier
             /\ worker[w].key = 0
             /\ worker[w].uuid = 0 )

\* ------------------------------------------------------------- C10
\* C10: an insert that fails (the generated credential has a record already, or
\* the statement fails) ends the request with IssuanceFailed and no credential,
\* and leaves every record of the store as it was.
C10_FailedInsertChangesNothing ==
    [][\A w \in Workers :
          ( /\ worker[w].pc = "new_authorization"
            /\ worker'[w].uuid # 0
            /\ \/ ~InsertAllowed(authorizations, worker'[w].uuid)
               \/ worker'[w].execute_failed )
          => ( /\ worker'[w].response = IssuanceFailed
               /\ worker'[w].key = 0
               /\ authorizations' = authorizations
               /\ issued' = issued )
      ]_vars

\* one issuance failed on a credential that collides with the Administrator's
\* record, which is as it was, and another one succeeded with a fresh credential
C10_Witness ==
    \E w1 \in Workers, w2 \in Workers :
        /\ worker[w1].response = IssuanceFailed
        /\ ~worker[w1].execute_failed
        /\ Row(worker[w1].uuid, 0, "test") \in authorizations
        /\ worker[w2].response = "key"
        /\ worker[w2].key # worker[w1].uuid
        /\ SelectKeyAccess(authorizations, worker[w2].key)
              = {Row(worker[w2].key, 1, worker[w2].label)}

\* ------------------------------------------------------------- C11
CounterNames == {"requests_fufilled", "instructions", "runtime_ns",
                 "bytes_returned", "status_hits"}

\* C11: no step of any thread, under any interleaving of handle calls and
\* status queries, makes one of the five counters smaller.
C11_CountersMonotonic ==
    [][\A f \in CounterNames : server_counts'[f] >= server_counts[f]]_vars

\* two handle calls are in progress at once, after a status query, with
\* instructions already counted
C11_Witness ==
    /\ \A w \in Workers : worker[w].pc \in InHandle
    /\ server_counts.status_hits = 1
    /\ server_counts.instructions >= 1

\* ------------------------------------------------------------- C12
\* no handle call has been entered and not yet returned
NoCallInProgress ==
    \A w \in Workers : worker[w].pc \notin (InHandle \cup {"interpretation"})

\* C12: with the handle calls run one after another from a zeroed ledger, the
\* instructions counter after the last call is the sum of the instruction
\* counts the engine returned.
C12_SequentialInstructionSum ==
    (NoCallInProgress /\ ~totals.overlapped)
    => server_counts.instructions = totals.executions

\* three calls were served one after another, two of them with instructions
C12_Witness ==
    /\ NoCallInProgress
    /\ ~totals.overlapped
    /\ totals.runs = 3
    /\ totals.executions = 2
    /\ server_counts.instructions = 2

\* ------------------------------------------------------------- C13
\* the positions at which a request has a connection in scope: conn in
\* AccessLevel::from_request, Database in handle_new_authorization
HoldingPositions == {"get_access_level", "new_authorization"}

\* the request of each thread has ended (answered, or the thread is gone)
AllRequestsEnded ==
    \A w \in Workers : worker[w].pc \in {"idle", "done", "panicked"}

\* C13: the connections checked out are those of the requests that are inside
\* a lookup or the issuance handler; a request that has ended, on any path,
\* holds none, and once all requests have ended none is checked out.
C13_ConnectionsReleased ==
    /\ checked_out = Cardinality({w \in Workers : worker[w].pc \in HoldingPositions})
    /\ \A w \in Workers :
          worker[w].pc \in {"idle", "done", "panicked"} => worker[w].holds = 0
    /\ AllRequestsEnded => checked_out = 0

\* all requests have ended, one in the panic on an unknown stored tier and one
\* with a failed insert after two acquisitions
C13_Witness ==
    /\ AllRequestsEnded
    /\ checked_out = 0
    /\ \E w1 \in Workers, w2 \in Workers :
          /\ worker[w1].pc = "panicked"
          /\ worker[w2].response = IssuanceFailed
          /\ worker[w2].gets = 2

\* ------------------------------------------------------------- C14
\* a <= b on usize values, most significant limb first
UsizeLeq(a, b) ==
    \/ a = b
    \/ \E i \in 1..4 : a[i] < b[i] /\ \A j \in 1..(i - 1) : a[j] = b[j]

IsUsize(a) == a \in [1..4 -> 0..(LimbBase - 1)]

\* the order of the tiers in the budget table, lowest first
TierOrder == <<"Unauthenticated", "Basic", "Developer", "Administrator">>
TierRank(level) == CHOOSE i \in 1..4 : TierOrder[i] = level

\* budget a of a lower tier against budget b of a higher one: instruction
\* ceiling and memory ceiling
BudgetLeq(a, b) == UsizeLeq(a[1], b[1]) /\ UsizeLeq(a[2], b[2])

\* C14: get_runtime_limits gives every one of the four tiers a pair of usize
\* ceilings, and a higher tier's ceilings are at least a lower tier's in both
\* components; so are the ceilings any two requests were given.
C14_BudgetTableOrdered ==
    /\ \A level \in AccessLevels :
          /\ Len(get_runtime_limits(level)) = 2
          /\ IsUsize(get_runtime_limits(level)[1])
          /\ IsUsize(get_runtime_limits(level)[2])
    /\ \A lo \in AccessLevels, hi \in AccessLevels :
          TierRank(lo) <= TierRank(hi)
             => BudgetLeq(get_runtime_limits(lo), get_runtime_limits(hi))
    /\ \A w1 \in Workers, w2 \in Workers :
          ( /\ worker[w1].limits # NoLimits
            /\ worker[w2].limits # NoLimits
            /\ TierRank(worker[w1].access) <= TierRank(worker[w2].access) )
          => BudgetLeq(worker[w1].limits, worker[w2].limits)

\* one thread was given the ceilings of Developer under a key that was issued,
\* another those of Administrator
C14_Witness ==
    \E w1 \in Workers, w2 \in Workers :
        /\ worker[w1].access = "Developer"
        /\ worker[w1].limits = DEVELOPER_RUNTIME_LIMITS
        /\ \E rec \in issued : <<rec.api_key>> = worker[w1].keys
        /\ worker[w2].access = "Administrator"
        /\ worker[w2].limits = ADMIN_RUNTIME_LIMITS

\* ------------------------------------------------------------- C15
\* the counters of a status snapshot in the order handle_api_status loads them
StatusOrder == <<"requests_fufilled", "instructions", "runtime_ns", "bytes_returned">>

\* C15: the ledger itself never holds bytes returned without a request served,
\* and each value of a snapshot is one its counter has held (a single atomic
\* load of a counter that only grows); the loads of one snapshot are separate
\* steps, so the witness below is a snapshot the ledger never held.
C15_SnapshotNotJoint ==
    /\ ~(server_counts.requests_fufilled = 0 /\ server_counts.bytes_returned >= 1)
    /\ \A w \in Workers :
          \A i \in 1..Len(worker[w].snapshot) :
              i <= 4 => worker[w].snapshot[i] <= server_counts[StatusOrder[i]]

\* a status answer reporting no request served and yet bytes returned
C15_Witness ==
    \E w \in Workers :
        /\ worker[w].response = "status"
        /\ worker[w].snapshot[1] = 0
        /\ worker[w].snapshot[4] >= 1

\* ------------------------------------------------------------- C16
\* C16: a call that has not serialized yet has no response length and a call
\* at the last two additions has one; the ledger's instructions, time and bytes
\* never run ahead of what the engine returned and what was serialized; and
\* requests_fufilled is at most the number of calls whose instructions and time
\* have been added.
C16_LedgerStepsOrdered ==
    /\ \A w \in Workers :
          /\ worker[w].pc \in {"add_instructions", "add_runtime_ns", "product_to_response"}
                => worker[w].len = 0 /\ worker[w].runs = 1
          /\ worker[w].pc \in {"add_requests_fufilled", "add_bytes_returned"}
                => worker[w].len >= 1
    /\ server_counts.instructions <= totals.executions
    /\ server_counts.runtime_ns <= totals.time
    /\ server_counts.bytes_returned <= totals.len
    /\ server_counts.requests_fufilled <= totals.metered

\* one call is counted as served while another has its instructions and time
\* in the ledger and is not serialized yet
C16_Witness ==
    /\ server_counts.requests_fufilled = 1
    /\ totals.metered = 2
    /\ \E w \in Workers : worker[w].pc = "product_to_response"

\* ------------------------------------------------------------- C17
\* C17: an admitted execution request has called the engine once as soon as it
\* is past the call and never before, a request the guard rejected has not
\* called it; the engine was called at most once per admitted request, and
\* when no call is in progress requests_fufilled, the number of engine calls
\* and the number of admitted execution requests are equal.
C17_EngineOncePerAdmitted ==
    /\ \A w \in Workers :
          /\ worker[w].pc = "interpretation" => worker[w].runs = 0
          /\ (worker[w].pc \in InHandle \/ worker[w].response = "product")
                => worker[w].runs = 1
          /\ worker[w].response \in Rejections => worker[w].runs = 0
    /\ totals.runs <= totals.admitted
    /\ server_counts.requests_fufilled <= totals.runs
    /\ NoCallInProgress =>
          /\ totals.runs = totals.admitted
          /\ server_counts.requests_fufilled = totals.admitted

\* two execution requests were admitted and served and one was rejected
C17_Witness ==
    /\ NoCallInProgress
    /\ totals.admitted = 2
    /\ server_counts.requests_fufilled = 2
    /\ \E w \in Workers :
          /\ worker[w].route = "request_interpretation"
          /\ worker[w].response \in Rejections
          /\ worker[w].runs = 0

\* ------------------------------------------------------------- C18
NoAdministratorCredential == ~\E row \in authorizations : row.access_level = 0

\* C18: every record a step writes has the tier code of Developer or Basic and
\* every issued credential one of these two tiers; and while the store holds no
\* Administrator credential no step changes the store or issues a credential,
\* and no request has resolved to Administrator or got a key.
C18_NoEscalationThroughIssuance ==
    [][ /\ \A row \in authorizations' \ authorizations : row.access_level \in {1, 2}
        /\ \A rec \in issued' : rec.level \in {"Developer", "Basic"}
        /\ NoAdministratorCredential =>
              /\ authorizations' = authorizations
              /\ issued' = issued
              /\ \A w \in Workers :
                    /\ worker'[w].access # "Administrator"
                    /\ worker'[w].response # "key"
                    /\ worker'[w].key = 0 ]_vars

\* the store holds a Developer credential only, and an issuance under it was
\* answered as not authorized
C18_Witness ==
    /\ NoAdministratorCredential
    /\ authorizations # {}
    /\ issued = {}
    /\ \E w \in Workers :
          /\ worker[w].route = "new_authorization"
          /\ worker[w].access = "Developer"
          /\ worker[w].gets = 2
          /\ worker[w].response = NotAuthorized

\* ------------------------------------------------------------- C19
\* C19: whatever the interleaving, when no handle call is in progress the
\* instructions, runtime_ns and bytes_returned counters are the sums of what
\* the engine calls and the serializations of all calls produced.
C19_NoLostUpdate ==
    NoCallInProgress =>
        /\ server_counts.instructions = totals.executions
        /\ server_counts.runtime_ns = totals.time
        /\ server_counts.bytes_returned = totals.len

\* three calls, some of them overlapping, have completed and each executed an
\* instruction
C19_Witness ==
    /\ NoCallInProgress
    /\ totals.overlapped
    /\ totals.runs = 3
    /\ server_counts.instructions = 3
    /\ server_counts.runtime_ns = 3
    /\ server_counts.bytes_returned = 3

\* ------------------------------------------------------------- C20
\* the positions at which a request is about to ask the pool for a connection
AcquiringPositions == {"access_guard", "db_guard"}

\* C20: a request holds one connection inside the lookup and inside the
\* issuance handler and none anywhere else, in particular none when it asks
\* the pool for one; the pool's count is the number of such requests; and a
\* request that holds a connection can take its next step, which gives the
\* connection back, without waiting for another one.
C20_OneConnectionPerRequest ==
    /\ \A w \in Workers :
          /\ worker[w].holds <= 1
          /\ worker[w].holds = 1 <=> worker[w].pc \in HoldingPositions
          /\ worker[w].pc \in AcquiringPositions => worker[w].holds = 0
          /\ worker[w].holds >= 1 =>
                ENABLED (from_request_lookup(w) \/ handle_new_authorization(w))
    /\ checked_out <= PoolSize
    /\ checked_out = Cardinality({w \in Workers : worker[w].holds >= 1})

\* an Administrator issuance got its key through a pool of one connection,
\* taking a connection twice
C20_Witness ==
    /\ PoolSize = 1
    /\ \E w \in Workers :
          /\ worker[w].route = "new_authorization"
          /\ worker[w].access = "Administrator"
          /\ worker[w].gets = 2
          /\ worker[w].response = "key"
          /\ worker[w].holds = 0
====
